---- MODULE Spec2Model ----
(***************************************************************************)
(* The device service (src/server.js, lines 1-475) and the event-notifying *)
(* viewer service (src/unnamed/part_000) of sensestr/viewer-api.           *)
(*                                                                         *)
(* Every request handler is an async function: the code between two awaits *)
(* runs without interruption, and other requests run while a handler waits *)
(* for the store.  A handler is therefore one "Begin" action (the request   *)
(* arrives and the code up to the first store call runs) followed by one    *)
(* action per awaited store operation; such an action is the store          *)
(* operation together with the handler code that runs on its result, up to  *)
(* the next await or the return.  The outcome of a handler is the value it  *)
(* hands to h.response, or the exception it throws.                         *)
(***************************************************************************)
EXTENDS Integers, Sequences, FiniteSets, TLC

(* ------------------------------ bounds --------------------------------- *)
\* Requests issued in one behaviour.
MaxReqs == 2
\* Milliseconds the clock may advance in one behaviour.
MaxClock == 1
\* Documents in a collection when a List request is served.
MaxDocs == 3
\* The largest skip a List request asks for.
MaxSkip == 3

(* ------------------------------ values --------------------------------- *)
\* JavaScript's undefined, where a string is expected.
undefined == "undefined"

\* new ObjectID(hex): a store identifier, a value distinct from the string hex.
ObjectID(hex) == [kind |-> "ObjectID", hex |-> hex]
\* The string hex as a stored value (Joi.objectId() validates a string and
\* leaves it a string).
Str(hex) == [kind |-> "string", hex |-> hex]
\* An absent (undefined) session reference.
undefinedRef == [kind |-> "undefined", hex |-> ""]
\* ObjectID.prototype.toString
toString(oid) == oid.hex

\* The identifiers new ObjectID() hands out, in order; never reused.
HexIds == <<"a1", "a2", "a3", "a4", "a5", "a6">>
\* The identifiers of the device and of the viewer that are in the database
\* when the services start (the database outlives the service processes).
SeedDeviceHex == "d0"
SeedViewerHex == "v0"
\* Session identifiers clients refer to.
SessionHex == {"s1", "s2"}

\* credentials built by the auth0 strategy's validate: the three kinds of
\* caller the ownership checks tell apart.
Callers ==
    { [user |-> "u1", isMachine |-> FALSE, scopes |-> {}, token |-> "jwt_u1"],
      [user |-> "m1", isMachine |-> TRUE, scopes |-> {}, token |-> "jwt_m1"],
      [user |-> "m2", isMachine |-> TRUE, scopes |-> {"impersonate_user"},
       token |-> "jwt_m2"] }
UserIds == {c.user : c \in Callers}
\* The caller of the requests whose handlers never read the credentials
\* (the GET handlers and DELETE /devices/{id}).
AnyCaller == CHOOSE c \in Callers : ~c.isMachine

Min(a, b) == IF a < b THEN a ELSE b
Max(a, b) == IF a > b THEN a ELSE b

Reqs == 1 .. MaxReqs

VARIABLES
    store,    \* store[c]: the documents of collection c, keyed by _id's hex
    now,      \* the clock new Date() reads, in milliseconds
    nextId,   \* index in HexIds of the next identifier new ObjectID() gives
    token,    \* expose.token of the event API plugin
    events,   \* what socket.emit has sent, in order
    pc,       \* pc[r]: where request r is
    req,      \* req[r]: the request (route, credentials, params, payload, query)
    loc,      \* loc[r]: the handler's local variables that outlive an await
    resp,     \* resp[r]: the handler's outcome
    delivered,\* delivered[i]: whether events[i] reached the event service
    fetching, \* token requests of getToken that have not been answered yet
    alive     \* FALSE once the process has exited

vars == <<store, now, nextId, token, events, pc, req, loc, resp,
          delivered, fetching, alive>>

(* ------------------------- the document store -------------------------- *)
\* collection.findOne({_id: new ObjectID(id)}): the document, or null (<<>>).
findOne(coll, oid) ==
    IF oid.hex \in DOMAIN store[coll] THEN <<store[coll][oid.hex]>> ELSE <<>>

\* collection.insertOne(doc)
insertOne(coll, doc) ==
    [store EXCEPT ![coll] = (doc._id.hex :> doc) @@ @]

\* collection.updateOne({_id: oid}, {$set: set}): the fields of set replace
\* those of the matching document; nothing is written when none matches.
updateOne(coll, oid, set) ==
    IF oid.hex \in DOMAIN store[coll]
    THEN [store EXCEPT ![coll][oid.hex] =
            [f \in DOMAIN @ \cup DOMAIN set |->
                IF f \in DOMAIN set THEN set[f] ELSE @[f]]]
    ELSE store

\* collection.deleteOne({_id: oid})
deleteOne(coll, oid) ==
    [store EXCEPT ![coll] = [h \in DOMAIN @ \ {oid.hex} |-> @[h]]]

(* --------------------------- handler helpers --------------------------- *)
\* doc.id = doc._id.toString(); delete doc._id
withId(doc) ==
    [f \in (DOMAIN doc \ {"_id"}) \cup {"id"} |->
        IF f = "id" THEN toString(doc._id) ELSE doc[f]]

\* {...doc, <fields>}: object spread followed by own properties
spread(doc, fields) ==
    [f \in DOMAIN doc \cup DOMAIN fields |->
        IF f \in DOMAIN fields THEN fields[f] ELSE doc[f]]

\* obj.f, which is undefined when obj has no property f
prop(obj, f) == IF f \in DOMAIN obj THEN obj[f] ELSE undefined

\* scopesContains as Array.prototype.includes would answer. Variant used to
\* test C20.
scopesContains_includes(scopes, s) == [threw |-> FALSE, value |-> s \in scopes]

\* request.auth.credentials.scopes.contains(s): scopes is token.scopes || [],
\* a value decoded from JSON, and neither Array nor String has a method
\* "contains" (it is "includes"): the call throws a TypeError.
scopesContains(scopes, s) == [threw |-> TRUE, value |-> FALSE]

\* if (payload.ownerId && payload.ownerId !== baseline &&
\*     (!isMachine || !scopes.contains("impersonate_user"))) return unauthorized
\* && and || evaluate left to right and stop as soon as the result is known.
impersonationCheck(payload, baseline, cred) ==
    IF payload.ownerId # undefined /\ payload.ownerId # baseline
    THEN IF ~cred.isMachine THEN "unauthorized"
         ELSE LET c == scopesContains(cred.scopes, "impersonate_user")
              IN  IF c.threw THEN "TypeError"
                  ELSE IF ~c.value THEN "unauthorized" ELSE "pass"
    ELSE "pass"

\* if (payload.ownerId && payload.ownerId === credentials.user && isMachine)
\*     return badRequest
machineOwnerCheck(payload, cred) ==
    IF payload.ownerId # undefined /\ payload.ownerId = cred.user /\ cred.isMachine
    THEN "badRequest" ELSE "pass"

\* The two checks in the order the handlers make them.
ownershipChecks(payload, baseline, cred) ==
    LET first == impersonationCheck(payload, baseline, cred)
    IN  IF first # "pass" THEN first ELSE machineOwnerCheck(payload, cred)

\* h.response(Boom.<kind>(...)), or the exception the handler threw
errorOutcome(kind) ==
    [status |-> IF kind \in {"TypeError", "ReferenceError"} THEN "threw" ELSE kind,
     body |-> [error |-> kind]]

\* h.response(resource)
okOutcome(resource) == [status |-> "ok", body |-> resource]

(* ------------------------------ requests ------------------------------- *)
NoReq == [method |-> "none", path |-> "none"]
NoResp == [status |-> "none"]
NoLoc == [none |-> TRUE]

\* Requests are numbered in the order they arrive.
Arrives(r) == pc[r] = "idle" /\ (IF r = 1 THEN TRUE ELSE pc[r - 1] # "idle")

\* The ids a client can name: those handed out so far and the seeded ones.
\* A viewer id names no device and a device id no viewer.
KnownHex == {HexIds[i] : i \in 1 .. (nextId - 1)} \cup {SeedDeviceHex, SeedViewerHex}

\* Payloads of POST /viewers and PUT /viewers/{id} (Joi: both keys optional).
ViewerPayloads ==
    [ownerId : UserIds \cup {undefined}, sessionId : {Str("s1")}]
    \cup [ownerId : {undefined}, sessionId : {Str("s2"), undefinedRef}]

Finish(r, outcome) ==
    /\ pc' = [pc EXCEPT ![r] = "done"]
    /\ resp' = [resp EXCEPT ![r] = outcome]
    /\ loc' = [loc EXCEPT ![r] = NoLoc]

Await(r, op, locals) ==
    /\ pc' = [pc EXCEPT ![r] = op]
    /\ loc' = [loc EXCEPT ![r] = locals]
    /\ UNCHANGED resp

\* emit sending the event twice. Variant used to test C11.
emit_twice(event) ==
    /\ events' = Append(Append(events, event), event)
    /\ \E ok \in BOOLEAN : delivered' = Append(Append(delivered, ok), ok)

\* socket.emit(event.event, event): the call returns at once and never
\* throws; the packet is sent when the socket is connected and kept in the
\* socket's buffer when it is not, so it may or may not reach the service.
emit(event) ==
    /\ events' = Append(events, event)
    /\ \E ok \in BOOLEAN : delivered' = Append(delivered, ok)

(* ------------------------ GET /viewers, /devices ------------------------ *)
\* Joi: limit is Joi.number().min(1).max(100).default(25)
LimitMin == 1
LimitMax == 100
LimitDefault == 25

\* The search object of lines 193-201 (the same in both services): ownerId
\* is matched against the field ownerId, and the query's sessionId, made an
\* ObjectID, against the field sessions.
searchOf(query) ==
    LET owner == IF query.ownerId # undefined
                 THEN [ownerId |-> query.ownerId] ELSE <<>>
        session == IF query.sessionId # undefined
                   THEN [sessions |-> ObjectID(query.sessionId)] ELSE <<>>
    IN  owner @@ session

\* Whether a document matches a search object: every key of the search must
\* be a field of the document, equal to the value searched for, or (for the
\* array field sessions) holding an element equal to it.  A string and an
\* ObjectID of the same hex are different values.
matches(doc, search) ==
    /\ "ownerId" \in DOMAIN search =>
          "ownerId" \in DOMAIN doc /\ doc.ownerId = search.ownerId
    /\ "sessions" \in DOMAIN search =>
          /\ "sessions" \in DOMAIN doc
          /\ \E i \in DOMAIN doc.sessions : doc.sessions[i] = search.sessions

\* The order in which the store returns documents: the order of insertion.
StoreOrder == <<SeedDeviceHex, SeedViewerHex>> \o HexIds

\* collection.find(search): the matching documents in store order.
find(coll, search) ==
    LET present(h) == h \in DOMAIN store[coll] /\ matches(store[coll][h], search)
        hexes == SelectSeq(StoreOrder, present)
    IN  [i \in DOMAIN hexes |-> store[coll][hexes[i]]]

\* collection.find(search).skip(skip).limit(limit): a cursor; nothing is
\* read from the store until the cursor is counted or drained.
cursorOf(coll, search, skip, limit) ==
    [coll |-> coll, search |-> search, skip |-> skip, limit |-> limit]

\* cursorCount with skip and limit applied whatever the argument. Variant used to test C9.
cursorCount_alwaysApplies(cursor, applySkipLimit) ==
    Min(Max(Len(find(cursor.coll, cursor.search)) - cursor.skip, 0), cursor.limit)

\* cursor.count(applySkipLimit): the number of matching documents, cut down
\* by the cursor's skip and limit when applySkipLimit is truthy.
cursorCount(cursor, applySkipLimit) ==
    LET n == Len(find(cursor.coll, cursor.search))
    IN  IF applySkipLimit THEN Min(Max(n - cursor.skip, 0), cursor.limit) ELSE n

\* cursor.toArray(): the matching documents after the first skip, at most
\* limit of them.
cursorToArray(cursor) ==
    LET found == find(cursor.coll, cursor.search)
    IN  SubSeq(found, cursor.skip + 1, Min(cursor.skip + cursor.limit, Len(found)))

\* Lines 187-207: the query is read and the cursor built.
ListBegin(r, path, coll, cred, query) ==
    /\ Arrives(r)
    /\ req' = [req EXCEPT ![r] =
                [method |-> "GET", path |-> path, cred |-> cred, query |-> query]]
    /\ Await(r, "count",
             [cursor |-> cursorOf(coll, searchOf(query), query.skip, query.limit)])
    /\ UNCHANGED <<store, now, nextId, token, events, delivered, fetching, alive>>

\* Line 209: const count = await cursor.count({ applySkipLimit: true });
\* the options object given as first argument is truthy.
ListCount(r) ==
    /\ pc[r] = "count"
    /\ Await(r, "total",
             [cursor |-> loc[r].cursor, count |-> cursorCount(loc[r].cursor, TRUE)])
    /\ UNCHANGED <<store, now, nextId, token, events, req, delivered, fetching, alive>>

\* Line 210: const total = await cursor.count(); no argument: not applied.
ListTotal(r) ==
    /\ pc[r] = "total"
    /\ Await(r, "toArray",
             [cursor |-> loc[r].cursor, count |-> loc[r].count,
              total |-> cursorCount(loc[r].cursor, FALSE)])
    /\ UNCHANGED <<store, now, nextId, token, events, req, delivered, fetching, alive>>

\* Lines 211-226: toArray, the ids made strings, and the response.
ListToArray(r) ==
    /\ pc[r] = "toArray"
    /\ LET q == req[r].query
           docs == cursorToArray(loc[r].cursor)
       IN  Finish(r, okOutcome(
                [metadata |-> [count |-> loc[r].count, skip |-> q.skip,
                               limit |-> q.limit, total |-> loc[r].total],
                 results |-> [i \in DOMAIN docs |-> withId(docs[i])]]))
    /\ UNCHANGED <<store, now, nextId, token, events, req, delivered, fetching, alive>>

\* GET /viewers (src/unnamed/part_000, lines 185-228)
GetViewersBegin(r, cred, query) ==
    alive /\ ListBegin(r, "/viewers", "viewers", cred, query)
GetViewersCount(r) == alive /\ req[r].path = "/viewers" /\ ListCount(r)
GetViewersTotal(r) == alive /\ req[r].path = "/viewers" /\ ListTotal(r)
GetViewersToArray(r) == alive /\ req[r].path = "/viewers" /\ ListToArray(r)

\* GET /devices (src/server.js, lines 115-157)
GetDevicesBegin(r, cred, query) == ListBegin(r, "/devices", "devices", cred, query)
GetDevicesCount(r) == req[r].path = "/devices" /\ ListCount(r)
GetDevicesTotal(r) == req[r].path = "/devices" /\ ListTotal(r)
GetDevicesToArray(r) == req[r].path = "/devices" /\ ListToArray(r)

(* --------------------------- POST /viewers ----------------------------- *)
\* Lines 266-315: the code up to the call of insertOne.  The two new Date()
\* are consecutive reads of the clock: the second is the first, or one
\* millisecond later.
PostViewersBegin(r, cred, payload) ==
    /\ alive /\ Arrives(r)
    /\ nextId <= Len(HexIds)
    /\ req' = [req EXCEPT ![r] =
                [method |-> "POST", path |-> "/viewers", cred |-> cred,
                 payload |-> payload]]
    /\ \E updatedDate \in now .. Min(now + 1, MaxClock) :
         LET id == ObjectID(HexIds[nextId])
             createdDate == now
             creatorId == cred.user
             ownerId == IF payload.ownerId # undefined THEN payload.ownerId
                        ELSE creatorId
             check == ownershipChecks(payload, creatorId, cred)
             viewer == [_id |-> id,
                        createdDate |-> createdDate,
                        updatedDate |-> updatedDate,
                        creatorId |-> cred.user,
                        updatorId |-> cred.user,
                        ownerId |-> ownerId,
                        sessionId |-> payload.sessionId]
         IN  /\ now' = updatedDate
             /\ nextId' = nextId + 1
             /\ IF check # "pass"
                THEN Finish(r, errorOutcome(check))
                ELSE Await(r, "insertOne", [token |-> token, viewer |-> viewer])
    /\ UNCHANGED <<store, token, events, delivered, fetching, alive>>

\* Lines 317-330: insertOne, then the event and the response.
PostViewersInsertOne(r) ==
    /\ alive /\ pc[r] = "insertOne" /\ req[r].path = "/viewers"
    /\ LET viewer == withId(loc[r].viewer)
           event == [event |-> "viewer created", token |-> loc[r].token,
                     viewerId |-> viewer.id, viewer |-> viewer]
       IN  /\ store' = insertOne("viewers", loc[r].viewer)
           /\ emit(event)
           /\ Finish(r, okOutcome(viewer))
    /\ UNCHANGED <<now, nextId, token, req, fetching, alive>>

(* -------------------------- GET /viewers/{id} -------------------------- *)
\* Lines 358-363: up to the call of findOne.
GetViewerBegin(r, cred, id) ==
    /\ alive /\ Arrives(r)
    /\ req' = [req EXCEPT ![r] =
                [method |-> "GET", path |-> "/viewers/{id}", cred |-> cred,
                 id |-> id]]
    /\ Await(r, "findOne", [search |-> ObjectID(id)])
    /\ UNCHANGED <<store, now, nextId, token, events, delivered, fetching, alive>>

\* Lines 363-371: findOne, then the response.
GetViewerFindOne(r) ==
    /\ alive /\ pc[r] = "findOne" /\ req[r].method = "GET" /\ req[r].path = "/viewers/{id}"
    /\ LET found == findOne("viewers", loc[r].search)
       IN  IF found # <<>>
           THEN Finish(r, okOutcome(withId(found[1])))
           ELSE Finish(r, errorOutcome("notFound"))
    /\ UNCHANGED <<store, now, nextId, token, events, req, delivered, fetching, alive>>

(* -------------------------- PUT /viewers/{id} -------------------------- *)
\* Lines 397-407: up to the call of findOne.
PutViewerBegin(r, cred, id, payload) ==
    /\ alive /\ Arrives(r)
    /\ req' = [req EXCEPT ![r] =
                [method |-> "PUT", path |-> "/viewers/{id}", cred |-> cred,
                 id |-> id, payload |-> payload]]
    /\ Await(r, "findOne", [token |-> token, search |-> ObjectID(id)])
    /\ UNCHANGED <<store, now, nextId, token, events, delivered, fetching, alive>>

\* PutViewerFindOne with updatorId written before the ownership checks are
\* made. Variant used to test C16.
PutViewerFindOne_writesFirst(r) ==
    /\ alive /\ pc[r] = "findOne" /\ req[r].method = "PUT" /\ req[r].path = "/viewers/{id}"
    /\ LET found == findOne("viewers", loc[r].search)
           check == ownershipChecks(req[r].payload, found[1].ownerId, req[r].cred)
       IN  /\ found # <<>>
           /\ store' = updateOne("viewers", loc[r].search,
                                 [updatorId |-> req[r].cred.user])
           /\ IF check # "pass"
              THEN Finish(r, errorOutcome(check))
              ELSE Await(r, "updateOne",
                         [token |-> loc[r].token, search |-> loc[r].search,
                          viewer |-> found[1], updatedDate |-> now,
                          updatorId |-> req[r].cred.user,
                          ownerId |-> found[1].ownerId])
    /\ UNCHANGED <<now, nextId, token, events, req, delivered, fetching, alive>>

\* Lines 407-442 and 470-472: findOne, then the ownership checks on the
\* document it returned, up to the call of updateOne.
PutViewerFindOne(r) ==
    /\ alive /\ pc[r] = "findOne" /\ req[r].method = "PUT" /\ req[r].path = "/viewers/{id}"
    /\ LET found == findOne("viewers", loc[r].search)
           payload == req[r].payload
           cred == req[r].cred
       IN  IF found # <<>>
           THEN LET viewer == found[1]
                    updatedDate == now
                    updatorId == cred.user
                    ownerId == IF payload.ownerId # undefined THEN payload.ownerId
                               ELSE viewer.ownerId
                    check == ownershipChecks(payload, viewer.ownerId, cred)
                IN  IF check # "pass"
                    THEN Finish(r, errorOutcome(check))
                    ELSE Await(r, "updateOne",
                               [token |-> loc[r].token, search |-> loc[r].search,
                                viewer |-> viewer, updatedDate |-> updatedDate,
                                updatorId |-> updatorId, ownerId |-> ownerId])
           ELSE Finish(r, errorOutcome("notFound"))
    /\ UNCHANGED <<store, now, nextId, token, events, req, delivered, fetching, alive>>

\* viewerSet with the creator overwritten as well. Variant used to test C5.
viewerSet_setsCreator(updatedDate, updatorId, ownerId, payload) ==
    [updatedDate |-> updatedDate, updatorId |-> updatorId, creatorId |-> updatorId,
     ownerId |-> ownerId, sessionId |-> payload.sessionId]

\* viewerSet without updatorId. Variant used to test C6.
viewerSet_noUpdator(updatedDate, updatorId, ownerId, payload) ==
    [updatedDate |-> updatedDate, ownerId |-> ownerId,
     sessionId |-> payload.sessionId]

\* The $set of lines 443-448.
viewerSet(updatedDate, updatorId, ownerId, payload) ==
    [updatedDate |-> updatedDate, updatorId |-> updatorId, ownerId |-> ownerId,
     sessionId |-> payload.sessionId]

\* Lines 442-468: updateOne, then the event and the response, both built
\* from the document findOne returned (which has _id and no id).
PutViewerUpdateOne(r) ==
    /\ alive /\ pc[r] = "updateOne" /\ req[r].path = "/viewers/{id}"
    /\ LET l == loc[r]
           fields == viewerSet(l.updatedDate, l.updatorId, l.ownerId, req[r].payload)
           updatedViewer == spread(l.viewer, fields)
           event == [event |-> "viewer updated", token |-> l.token,
                     viewerId |-> prop(updatedViewer, "id"),
                     viewer |-> updatedViewer]
       IN  /\ store' = updateOne("viewers", l.search, fields)
           /\ emit(event)
           /\ Finish(r, okOutcome(updatedViewer))
    /\ UNCHANGED <<now, nextId, token, req, fetching, alive>>

(* ------------------------ DELETE /viewers/{id} ------------------------- *)
\* DeleteViewerBegin taking the token from the caller's credentials. Variant
\* used to test C19.
DeleteViewerBegin_callerToken(r, cred, id) ==
    /\ alive /\ Arrives(r)
    /\ req' = [req EXCEPT ![r] =
                [method |-> "DELETE", path |-> "/viewers/{id}", cred |-> cred,
                 id |-> id]]
    /\ Await(r, "findOne", [token |-> cred.token, search |-> ObjectID(id)])
    /\ UNCHANGED <<store, now, nextId, token, events, delivered, fetching, alive>>

\* Lines 503-511: up to the call of findOne.
DeleteViewerBegin(r, cred, id) ==
    /\ alive /\ Arrives(r)
    /\ req' = [req EXCEPT ![r] =
                [method |-> "DELETE", path |-> "/viewers/{id}", cred |-> cred,
                 id |-> id]]
    /\ Await(r, "findOne", [token |-> token, search |-> ObjectID(id)])
    /\ UNCHANGED <<store, now, nextId, token, events, delivered, fetching, alive>>

\* Lines 511-517 and 528-530: findOne, up to the call of deleteOne.
DeleteViewerFindOne(r) ==
    /\ alive /\ pc[r] = "findOne" /\ req[r].method = "DELETE" /\ req[r].path = "/viewers/{id}"
    /\ LET found == findOne("viewers", loc[r].search)
       IN  IF found # <<>>
           THEN Await(r, "deleteOne",
                      [token |-> loc[r].token, search |-> loc[r].search,
                       viewer |-> withId(found[1])])
           ELSE Finish(r, errorOutcome("notFound"))
    /\ UNCHANGED <<store, now, nextId, token, events, req, delivered, fetching, alive>>

\* DeleteViewerDeleteOne answering with an error when the event did not
\* reach the event service. Variant used to test C17.
DeleteViewerDeleteOne_awaitsDelivery(r) ==
    /\ alive /\ pc[r] = "deleteOne" /\ req[r].path = "/viewers/{id}"
    /\ LET viewer == loc[r].viewer
           event == [event |-> "viewer deleted", token |-> loc[r].token,
                     viewerId |-> viewer.id, viewer |-> viewer]
       IN  /\ store' = deleteOne("viewers", loc[r].search)
           /\ emit(event)
           /\ Finish(r, IF delivered'[Len(delivered')] THEN okOutcome(viewer)
                        ELSE errorOutcome("badGateway"))
    /\ UNCHANGED <<now, nextId, token, req, fetching, alive>>

\* Lines 517-527: deleteOne, then the event and the response.
DeleteViewerDeleteOne(r) ==
    /\ alive /\ pc[r] = "deleteOne" /\ req[r].path = "/viewers/{id}"
    /\ LET viewer == loc[r].viewer
           event == [event |-> "viewer deleted", token |-> loc[r].token,
                     viewerId |-> viewer.id, viewer |-> viewer]
       IN  /\ store' = deleteOne("viewers", loc[r].search)
           /\ emit(event)
           /\ Finish(r, okOutcome(viewer))
    /\ UNCHANGED <<now, nextId, token, req, fetching, alive>>

(* ---------------------------- POST /devices ---------------------------- *)
\* Payloads of POST /devices and PUT /devices/{id}; name has Joi's default.
DevicePayloads ==
    { [ownerId |-> undefined, name |-> "Unnamed Device", description |-> undefined,
       sessions |-> <<Str("s1")>>],
      [ownerId |-> "u1", name |-> "Unnamed Device", description |-> undefined,
       sessions |-> <<Str("s1")>>],
      [ownerId |-> undefined, name |-> "Unnamed Device", description |-> undefined,
       sessions |-> <<Str("s1"), Str("s1")>>] }

\* Reading creatorId in the device service: no such variable is declared
\* there (the handler never defines it), so the read throws ReferenceError.
readCreatorId(cred) == [threw |-> TRUE, value |-> undefined]

\* Lines 197-219.  Line 206 reads creatorId when the payload has no ownerId,
\* line 210 reads it when the payload has one: the handler always throws,
\* after new ObjectID() and the two new Date(), before insertOne.
PostDevicesBegin(r, cred, payload) ==
    /\ Arrives(r)
    /\ nextId <= Len(HexIds)
    /\ req' = [req EXCEPT ![r] =
                [method |-> "POST", path |-> "/devices", cred |-> cred,
                 payload |-> payload]]
    /\ \E updatedDate \in now .. Min(now + 1, MaxClock) :
         LET creatorId == readCreatorId(cred)
             line206 == IF payload.ownerId # undefined THEN FALSE
                        ELSE creatorId.threw
             line210 == IF payload.ownerId # undefined THEN creatorId.threw
                        ELSE FALSE
         IN  /\ now' = updatedDate
             /\ nextId' = nextId + 1
             /\ IF line206 \/ line210
                THEN Finish(r, errorOutcome("ReferenceError"))
                ELSE Finish(r, errorOutcome(
                        ownershipChecks(payload, creatorId.value, cred)))
    /\ UNCHANGED <<store, token, events, delivered, fetching, alive>>

(* -------------------------- GET /devices/{id} -------------------------- *)
\* Lines 284-289: up to the call of findOne.
GetDeviceBegin(r, cred, id) ==
    /\ Arrives(r)
    /\ req' = [req EXCEPT ![r] =
                [method |-> "GET", path |-> "/devices/{id}", cred |-> cred,
                 id |-> id]]
    /\ Await(r, "findOne", [search |-> ObjectID(id)])
    /\ UNCHANGED <<store, now, nextId, token, events, delivered, fetching, alive>>

\* Lines 289-297: findOne, then the response.
GetDeviceFindOne(r) ==
    /\ pc[r] = "findOne" /\ req[r].method = "GET" /\ req[r].path = "/devices/{id}"
    /\ LET found == findOne("devices", loc[r].search)
       IN  IF found # <<>>
           THEN Finish(r, okOutcome(withId(found[1])))
           ELSE Finish(r, errorOutcome("notFound"))
    /\ UNCHANGED <<store, now, nextId, token, events, req, delivered, fetching, alive>>

(* -------------------------- PUT /devices/{id} -------------------------- *)
\* Lines 325-333: up to the call of findOne.
PutDeviceBegin(r, cred, id, payload) ==
    /\ Arrives(r)
    /\ req' = [req EXCEPT ![r] =
                [method |-> "PUT", path |-> "/devices/{id}", cred |-> cred,
                 id |-> id, payload |-> payload]]
    /\ Await(r, "findOne", [search |-> ObjectID(id)])
    /\ UNCHANGED <<store, now, nextId, token, events, delivered, fetching, alive>>

\* sessionSet.map(...) of line 341: sessionSet is a Set, and Set has no
\* method "map": the call throws a TypeError.
sessionSetMap(sessions) == [threw |-> TRUE, value |-> <<>>]

\* PutDeviceFindOne with lines 340-341 run before the test of line 335. Variant used to test C7.
PutDeviceFindOne_mapFirst(r) ==
    /\ pc[r] = "findOne" /\ req[r].method = "PUT" /\ req[r].path = "/devices/{id}"
    /\ Finish(r, errorOutcome(
            IF sessionSetMap(req[r].payload.sessions).threw THEN "TypeError"
            ELSE "notFound"))
    /\ UNCHANGED <<store, now, nextId, token, events, req, delivered, fetching, alive>>

\* Lines 333-341 and 393-395: findOne; when the device exists line 341
\* throws, before the ownership checks and before updateOne.
PutDeviceFindOne(r) ==
    /\ pc[r] = "findOne" /\ req[r].method = "PUT" /\ req[r].path = "/devices/{id}"
    /\ LET found == findOne("devices", loc[r].search)
       IN  IF found # <<>>
           THEN LET sessionIds == sessionSetMap(req[r].payload.sessions)
                IN  IF sessionIds.threw
                    THEN Finish(r, errorOutcome("TypeError"))
                    ELSE Finish(r, errorOutcome(
                            ownershipChecks(req[r].payload, found[1].ownerId,
                                            req[r].cred)))
           ELSE Finish(r, errorOutcome("notFound"))
    /\ UNCHANGED <<store, now, nextId, token, events, req, delivered, fetching, alive>>

(* ------------------------ DELETE /devices/{id} ------------------------- *)
\* Lines 430-436: up to the call of findOne.
DeleteDeviceBegin(r, cred, id) ==
    /\ Arrives(r)
    /\ req' = [req EXCEPT ![r] =
                [method |-> "DELETE", path |-> "/devices/{id}", cred |-> cred,
                 id |-> id]]
    /\ Await(r, "findOne", [search |-> ObjectID(id)])
    /\ UNCHANGED <<store, now, nextId, token, events, delivered, fetching, alive>>

\* Lines 436-444: findOne, then the response.  The handler calls no
\* deleteOne: the store is left as it is.
DeleteDeviceFindOne(r) ==
    /\ pc[r] = "findOne" /\ req[r].method = "DELETE" /\ req[r].path = "/devices/{id}"
    /\ LET found == findOne("devices", loc[r].search)
       IN  IF found # <<>>
           THEN Finish(r, okOutcome(withId(found[1])))
           ELSE Finish(r, errorOutcome("notFound"))
    /\ UNCHANGED <<store, now, nextId, token, events, req, delivered, fetching, alive>>

(* ------------------------ the event API plugin ------------------------ *)
\* Token requests of getToken that may be unanswered at the same time.
MaxFetches == 1
\* The access token the identity provider answers with ('' is expose.token
\* before the first answer).
AccessTokens == {"evt1"}
\* What the promise of Axios.request is rejected with: an error that carries
\* the provider's answer (an HTTP error status), or one that carries none
\* (no connection, no answer in time), whose property response is undefined.
FetchErrors == {[response |-> TRUE], [response |-> FALSE]}

\* The timer of line 68 fires: getToken sends the next token request and sets
\* the timer again (lines 46-68; the timer is set as soon as the request is
\* sent, whatever becomes of the request).  The model does not measure the
\* period against the clock.
GetToken ==
    /\ alive
    /\ fetching < MaxFetches
    /\ fetching' = fetching + 1
    /\ UNCHANGED <<store, now, nextId, token, events, pc, req, loc, resp,
                   delivered, alive>>

\* Lines 61-63: the provider answers; expose.token is replaced.
FetchResolves(accessToken) ==
    /\ alive
    /\ fetching > 0
    /\ fetching' = fetching - 1
    /\ token' = accessToken
    /\ UNCHANGED <<store, now, nextId, events, pc, req, loc, resp,
                   delivered, alive>>

\* error.response.data of line 65: a TypeError when error.response is
\* undefined.
errorResponseData(error) == [threw |-> ~error.response]

\* Lines 64-66 and 554-557: the request fails and the catch callback logs
\* error.response.data.  When that read throws, the promise the catch
\* returned is rejected and nothing handles it: the unhandledRejection
\* listener logs the error and calls process.exit(1).
FetchRejects(error) ==
    /\ alive
    /\ fetching > 0
    /\ fetching' = fetching - 1
    /\ alive' = ~errorResponseData(error).threw
    /\ UNCHANGED <<store, now, nextId, token, events, pc, req, loc, resp,
                   delivered>>

(* ------------------------------ the clock ------------------------------ *)
\* A millisecond passes.
Tick ==
    /\ now < MaxClock
    /\ now' = now + 1
    /\ UNCHANGED <<store, nextId, token, events, pc, req, loc, resp, delivered, fetching, alive>>

(* --------------------------- initial state ----------------------------- *)
\* A viewer as POST /viewers writes it (lines 307-315), created by u1.
SeedViewer ==
    [_id |-> ObjectID(SeedViewerHex), createdDate |-> 0, updatedDate |-> 0,
     creatorId |-> "u1", updatorId |-> "u1", ownerId |-> "u1",
     sessionId |-> Str("s1")]

\* A device with the fields POST /devices gives one (lines 236-246).
SeedDevice ==
    [_id |-> ObjectID(SeedDeviceHex), createdDate |-> 0, updatedDate |-> 0,
     creatorId |-> "u1", updatorId |-> "u1", ownerId |-> "u1",
     name |-> "Unnamed Device", description |-> undefined,
     sessions |-> <<Str("s1"), Str("s2")>>]

\* The services start on a database that holds one device and one viewer;
\* expose.token is '' (line 42) and no request has arrived.
Init ==
    /\ store = [viewers |-> (SeedViewerHex :> SeedViewer),
                devices |-> (SeedDeviceHex :> SeedDevice)]
    /\ now = 0
    /\ nextId = 1
    /\ token = ""
    /\ events = <<>>
    /\ pc = [r \in Reqs |-> "idle"]
    /\ req = [r \in Reqs |-> NoReq]
    /\ loc = [r \in Reqs |-> NoLoc]
    /\ resp = [r \in Reqs |-> NoResp]
    /\ delivered = <<>>
    /\ fetching = 1
    /\ alive = TRUE

\* The ids requests to the device service name: the device, and an id that
\* names no device.
DeviceHex == {SeedDeviceHex, SeedViewerHex}

Next ==
    \/ Tick
    \/ \E r \in Reqs, cred \in Callers, payload \in ViewerPayloads :
          PostViewersBegin(r, cred, payload)
    \/ \E r \in Reqs : PostViewersInsertOne(r)
    \/ \E r \in Reqs, id \in KnownHex : GetViewerBegin(r, AnyCaller, id)
    \/ \E r \in Reqs : GetViewerFindOne(r)
    \/ \E r \in Reqs, cred \in Callers, id \in KnownHex, payload \in ViewerPayloads :
          PutViewerBegin(r, cred, id, payload)
    \/ \E r \in Reqs : PutViewerFindOne(r)
    \/ \E r \in Reqs : PutViewerUpdateOne(r)
    \/ \E r \in Reqs, cred \in Callers, id \in KnownHex : DeleteViewerBegin(r, cred, id)
    \/ \E r \in Reqs : DeleteViewerFindOne(r)
    \/ \E r \in Reqs : DeleteViewerDeleteOne(r)
    \/ \E r \in Reqs, cred \in Callers, payload \in DevicePayloads :
          PostDevicesBegin(r, cred, payload)
    \/ \E r \in Reqs, id \in DeviceHex : GetDeviceBegin(r, AnyCaller, id)
    \/ \E r \in Reqs : GetDeviceFindOne(r)
    \/ \E r \in Reqs, cred \in Callers, id \in DeviceHex, payload \in DevicePayloads :
          PutDeviceBegin(r, cred, id, payload)
    \/ \E r \in Reqs : PutDeviceFindOne(r)
    \/ \E r \in Reqs, id \in DeviceHex : DeleteDeviceBegin(r, AnyCaller, id)
    \/ \E r \in Reqs : DeleteDeviceFindOne(r)

Spec == Init /\ [][Next]_vars

(* ------------- the viewer service with its event API plugin ------------ *)
\* The requests of the viewer service that write or notify, and the token
\* refresh that runs beside them.  What is notified does not depend on the
\* dates: the clock moves here only between the two reads of POST /viewers.
NextEvents ==
    \/ GetToken
    \/ \E accessToken \in AccessTokens : FetchResolves(accessToken)
    \/ \E error \in FetchErrors : FetchRejects(error)
    \/ \E r \in Reqs, cred \in Callers, payload \in ViewerPayloads :
          PostViewersBegin(r, cred, payload)
    \/ \E r \in Reqs : PostViewersInsertOne(r)
    \/ \E r \in Reqs, cred \in Callers, id \in KnownHex, payload \in ViewerPayloads :
          PutViewerBegin(r, cred, id, payload)
    \/ \E r \in Reqs : PutViewerFindOne(r)
    \/ \E r \in Reqs : PutViewerUpdateOne(r)
    \/ \E r \in Reqs, cred \in Callers, id \in KnownHex : DeleteViewerBegin(r, cred, id)
    \/ \E r \in Reqs : DeleteViewerFindOne(r)
    \/ \E r \in Reqs : DeleteViewerDeleteOne(r)

SpecEvents == Init /\ [][NextEvents]_vars

(* ------------------- the List handlers on their own -------------------- *)
\* The i-th viewer of a populated collection, as POST /viewers writes it
\* (lines 307-315): created by u1 or by the machine m1, for session s1 or s2.
SeedViewerAt(i) ==
    LET creator == IF i % 2 = 1 THEN "u1" ELSE "m1"
    IN  [_id |-> ObjectID(HexIds[i]), createdDate |-> 0, updatedDate |-> 0,
         creatorId |-> creator, updatorId |-> creator, ownerId |-> creator,
         sessionId |-> IF (i \div 2) % 2 = 0 THEN Str("s1") ELSE Str("s2")]

\* The i-th device of a populated collection, with the fields of lines 236-246.
SeedDeviceAt(i) ==
    LET creator == IF i % 2 = 1 THEN "u1" ELSE "m1"
    IN  [_id |-> ObjectID(HexIds[i]), createdDate |-> 0, updatedDate |-> 0,
         creatorId |-> creator, updatorId |-> creator, ownerId |-> creator,
         name |-> "Unnamed Device", description |-> undefined,
         sessions |-> IF (i \div 2) % 2 = 0 THEN <<Str("s1")>>
                      ELSE <<Str("s2"), Str("s1")>>]

\* The query strings of the List requests, as Joi passes them on (skip >= 0,
\* limit between 1 and 100; ownerId and sessionId optional).
Queries ==
    [skip : 0 .. MaxSkip, limit : {LimitMin, 2, LimitDefault, LimitMax},
     ownerId : {undefined, "u1"}, sessionId : {undefined, "s1"}]

\* Both collections hold between 0 and MaxDocs documents.
InitList ==
    /\ \E k \in 0 .. MaxDocs, j \in 0 .. MaxDocs :
         /\ store = [viewers |-> [h \in {HexIds[i] : i \in 1 .. k} |->
                                    SeedViewerAt(CHOOSE i \in 1 .. k : HexIds[i] = h)],
                     devices |-> [h \in {HexIds[i] : i \in 1 .. j} |->
                                    SeedDeviceAt(CHOOSE i \in 1 .. j : HexIds[i] = h)]]
         /\ nextId = k + 1
    /\ now = 0
    /\ token = ""
    /\ events = <<>>
    /\ pc = [r \in Reqs |-> "idle"]
    /\ req = [r \in Reqs |-> NoReq]
    /\ loc = [r \in Reqs |-> NoLoc]
    /\ resp = [r \in Reqs |-> NoResp]
    /\ delivered = <<>>
    /\ fetching = 1
    /\ alive = TRUE

\* A List request changes nothing, so List requests do not affect one
\* another: one List request is served per behaviour.
NextList ==
    \E r \in {1} :
        \/ \E query \in Queries : GetViewersBegin(r, AnyCaller, query)
        \/ GetViewersCount(r)
        \/ GetViewersTotal(r)
        \/ GetViewersToArray(r)
        \/ \E query \in Queries : GetDevicesBegin(r, AnyCaller, query)
        \/ GetDevicesCount(r)
        \/ GetDevicesTotal(r)
        \/ GetDevicesToArray(r)

SpecList == InitList /\ [][NextList]_vars

(* ======================================================================= *)
(* The claims                                                              *)
(* ======================================================================= *)
\* Request r takes a step; request r gets its outcome in this step.
Acts(r) == pc'[r] # pc[r]
Completes(r) == pc[r] # "done" /\ pc'[r] = "done"
\* Request r makes its ownership checks in this step: a Create when it
\* arrives, an Update when findOne returns the resource.
ChecksCreate(r) == pc[r] = "idle" /\ Acts(r) /\ req'[r].method = "POST"
ChecksUpdate(r) ==
    /\ pc[r] = "findOne" /\ Acts(r) /\ req[r].method = "PUT"
    /\ req[r].id \in DOMAIN store[IF req[r].path = "/viewers/{id}"
                                  THEN "viewers" ELSE "devices"]
CollOf(path) == IF path \in {"/viewers", "/viewers/{id}"} THEN "viewers" ELSE "devices"

\* C1 (as claimed): a Create whose payload has no ownerId, on either
\* resource type, succeeds, and the resource returned and stored has
\* ownerId = creatorId = updatorId = the caller's id.
C1_CreateDefaultsOwner ==
    [][\A r \in Reqs :
         (Completes(r) /\ req'[r].method = "POST"
            /\ req'[r].payload.ownerId = undefined)
         => /\ resp'[r].status = "ok"
            /\ LET b == resp'[r].body
                   c == CollOf(req'[r].path)
                   u == req'[r].cred.user
               IN  /\ b.ownerId = u /\ b.creatorId = u /\ b.updatorId = u
                   /\ b.id \in DOMAIN store'[c]
                   /\ store'[c][b.id].ownerId = u
                   /\ store'[c][b.id].creatorId = u
                   /\ store'[c][b.id].updatorId = u]_vars

\* C2 (as claimed): a caller without the impersonate_user scope, machine or
\* not, whose payload ownerId differs from the baseline owner (its own id on
\* Create, the stored ownerId on Update) receives Unauthorized.
C2_NoScopeUnauthorized ==
    [][\A r \in Reqs :
         /\ (ChecksCreate(r)
               /\ "impersonate_user" \notin req'[r].cred.scopes
               /\ req'[r].payload.ownerId \notin {undefined, req'[r].cred.user})
            => (pc'[r] = "done" /\ resp'[r].status = "unauthorized")
         /\ (ChecksUpdate(r)
               /\ "impersonate_user" \notin req[r].cred.scopes
               /\ req[r].payload.ownerId \notin
                    {undefined, store[CollOf(req[r].path)][req[r].id].ownerId})
            => (pc'[r] = "done" /\ resp'[r].status = "unauthorized")]_vars

\* C3 (as claimed): a machine caller whose payload ownerId is its own id
\* receives BadRequest on Create and on Update, whatever its scopes and
\* whatever the stored ownerId.
C3_MachineSelfBadRequest ==
    [][\A r \in Reqs :
         /\ (ChecksCreate(r) /\ req'[r].cred.isMachine
               /\ req'[r].payload.ownerId = req'[r].cred.user)
            => (pc'[r] = "done" /\ resp'[r].status = "badRequest")
         /\ (ChecksUpdate(r) /\ req[r].cred.isMachine
               /\ req[r].payload.ownerId = req[r].cred.user)
            => (pc'[r] = "done" /\ resp'[r].status = "badRequest")]_vars

\* C4 (as claimed): a machine caller holding impersonate_user whose payload
\* ownerId differs from the baseline owner and from its own id is accepted
\* on Create and on Update (its checks reject nothing), and when the request
\* completes the ownerId returned and stored is the one requested.
C4_Impersonates(q, baseline) ==
    /\ q.cred.isMachine /\ "impersonate_user" \in q.cred.scopes
    /\ q.payload.ownerId \notin {undefined, q.cred.user, baseline}
C4_ImpersonationAccepted ==
    [][\A r \in Reqs :
         /\ (ChecksCreate(r) /\ C4_Impersonates(req'[r], req'[r].cred.user))
            => pc'[r] # "done"
         /\ (ChecksUpdate(r)
               /\ C4_Impersonates(req[r], store[CollOf(req[r].path)][req[r].id].ownerId))
            => pc'[r] # "done"
         /\ (Completes(r) /\ pc[r] \in {"insertOne", "updateOne"}
               /\ C4_Impersonates(req[r], IF pc[r] = "insertOne" THEN req[r].cred.user
                                           ELSE loc[r].viewer.ownerId))
            => /\ resp'[r].status = "ok"
               /\ resp'[r].body.ownerId = req[r].payload.ownerId
               /\ \A h \in DOMAIN store[CollOf(req[r].path)] :
                     h = loc[r].viewer._id.hex
                     => store'[CollOf(req[r].path)][h].ownerId = req[r].payload.ownerId
        ]_vars

\* C5: every step of an Update request, accepted or rejected, leaves the
\* resource it names in the store with the same _id, createdDate and
\* creatorId (and creates no resource when there is none).
C5_UpdateKeepsImmutableFields ==
    [][\A r \in Reqs :
         (Acts(r) /\ req'[r].method = "PUT")
         => LET c == CollOf(req'[r].path)
                h == req'[r].id
            IN  IF h \in DOMAIN store[c]
                THEN /\ h \in DOMAIN store'[c]
                     /\ store'[c][h]._id = store[c][h]._id
                     /\ store'[c][h].createdDate = store[c][h].createdDate
                     /\ store'[c][h].creatorId = store[c][h].creatorId
                ELSE h \notin DOMAIN store'[c]]_vars

\* C5 witness: an Update by a caller other than the creator has been written.
C5_Witness ==
    \E r \in Reqs :
        /\ pc[r] = "done" /\ req[r].method = "PUT" /\ resp[r].status = "ok"
        /\ req[r].id \in DOMAIN store.viewers
        /\ store.viewers[req[r].id].updatorId = req[r].cred.user
        /\ store.viewers[req[r].id].creatorId # req[r].cred.user

\* C6 (as claimed): after every successful Update the stored updatedDate is
\* strictly greater than the one stored before the write, and the stored
\* updatorId is the caller's id.
C6_UpdatedDateStrictlyIncreases ==
    [][\A r \in Reqs :
         (Completes(r) /\ req[r].method = "PUT" /\ resp'[r].status = "ok"
            /\ req[r].id \in DOMAIN store[CollOf(req[r].path)])
         => LET c == CollOf(req[r].path)
                h == req[r].id
            IN  /\ store'[c][h].updatedDate > store[c][h].updatedDate
                /\ store'[c][h].updatorId = req[r].cred.user]_vars

\* C6 (amended): after every successful Update whose write finds the
\* resource, the stored updatedDate is the time the Update read when it
\* loaded the resource, which is not earlier than the updatedDate it loaded,
\* and the stored updatorId is the caller's id.
C6_UpdatedDateIsReadTime ==
    [][\A r \in Reqs :
         (Completes(r) /\ req[r].method = "PUT" /\ resp'[r].status = "ok"
            /\ req[r].id \in DOMAIN store[CollOf(req[r].path)])
         => LET c == CollOf(req[r].path)
                h == req[r].id
            IN  /\ store'[c][h].updatedDate = loc[r].updatedDate
                /\ loc[r].updatedDate >= loc[r].viewer.updatedDate
                /\ loc[r].updatedDate <= now
                /\ store'[c][h].updatorId = req[r].cred.user]_vars

\* C6 witness: an Update has been written whose updatedDate is later than
\* the resource's createdDate.
C6_Witness ==
    \E r \in Reqs :
        /\ pc[r] = "done" /\ req[r].method = "PUT" /\ resp[r].status = "ok"
        /\ req[r].id \in DOMAIN store.viewers
        /\ store.viewers[req[r].id].updatedDate = resp[r].body.updatedDate
        /\ store.viewers[req[r].id].updatedDate > store.viewers[req[r].id].createdDate
        /\ store.viewers[req[r].id].updatorId = req[r].cred.user

\* C7: for both resource types, a Get, Update or Delete whose findOne finds
\* no resource of the id it names ends there with NotFound.
C7_MissingIdNotFound ==
    [][\A r \in Reqs :
         (pc[r] = "findOne" /\ Acts(r)
            /\ req[r].method \in {"GET", "PUT", "DELETE"}
            /\ req[r].id \notin DOMAIN store[CollOf(req[r].path)])
         => (pc'[r] = "done" /\ resp'[r].status = "notFound"
               /\ store' = store /\ events' = events)]_vars

\* C7 witness: an Update of a device id that names no device, and a Delete
\* of a viewer id that names no viewer, have both answered NotFound.
C7_Witness ==
    /\ \E r \in Reqs :
        /\ pc[r] = "done" /\ req[r].method = "PUT" /\ req[r].path = "/devices/{id}"
        /\ req[r].id \notin DOMAIN store.devices
        /\ resp[r].status = "notFound"
    /\ \E r \in Reqs :
        /\ pc[r] = "done" /\ req[r].method = "DELETE" /\ req[r].path = "/viewers/{id}"
        /\ req[r].id \notin DOMAIN store.viewers
        /\ resp[r].status = "notFound"

\* C8 (as claimed): for both resource types a successful Delete removes the
\* resource from the store, and from then on the resource is never in the
\* store again and every Get of its id answers NotFound.
C8_Deleted(c, h) ==
    \E r \in Reqs :
        /\ pc[r] = "done" /\ req[r].method = "DELETE" /\ resp[r].status = "ok"
        /\ CollOf(req[r].path) = c /\ req[r].id = h
C8_DeleteIsTerminal ==
    [][/\ \A r \in Reqs :
            (Completes(r) /\ req[r].method = "DELETE" /\ resp'[r].status = "ok")
            => req[r].id \notin DOMAIN store'[CollOf(req[r].path)]
       /\ \A c \in {"viewers", "devices"}, h \in KnownHex :
            C8_Deleted(c, h)
            => /\ h \notin DOMAIN store'[c]
               /\ \A r \in Reqs :
                    (Completes(r) /\ req[r].method = "GET" /\ pc[r] = "findOne"
                       /\ CollOf(req[r].path) = c /\ req[r].id = h)
                    => resp'[r].status = "notFound"]_vars

\* The stored resources of collection c that match the filter of query q as
\* the handler's search object states it.
C9_Matching(c, q) == {h \in DOMAIN store[c] : matches(store[c][h], searchOf(q))}

\* C9: a List with skip >= 0 and limit in 1..100 over a collection of which M
\* resources match the filter answers total = M, whatever skip and limit,
\* and count = results.length = min(max(M - skip, 0), limit).  (The
\* collection does not change while the List is served.)
C9_ListPagination ==
    \A r \in Reqs :
        (pc[r] = "done" /\ req[r].method = "GET" /\ req[r].path \in {"/viewers", "/devices"})
        => LET q == req[r].query
               M == Cardinality(C9_Matching(CollOf(req[r].path), q))
               meta == resp[r].body.metadata
               expected == IF M - q.skip <= 0 THEN 0
                           ELSE IF M - q.skip < q.limit THEN M - q.skip
                           ELSE q.limit
           IN  /\ resp[r].status = "ok"
               /\ q.skip >= 0 /\ q.limit >= LimitMin /\ q.limit <= LimitMax
               /\ meta.total = M
               /\ meta.count = expected
               /\ Len(resp[r].body.results) = expected
               /\ meta.skip = q.skip /\ meta.limit = q.limit

\* C9 witness: the claim's example scaled down, 3 matching viewers listed
\* with limit 2 and skip 2: one result, count 1, total 3.
C9_Witness ==
    \E r \in Reqs :
        /\ pc[r] = "done" /\ req[r].path = "/viewers"
        /\ req[r].query.limit = 2 /\ req[r].query.skip = 2
        /\ resp[r].body.metadata.total = 3
        /\ resp[r].body.metadata.count = 1
        /\ Len(resp[r].body.results) = 1

\* Whether a stored resource of collection c is one the filter of query q
\* asks for: it references the session (a viewer's sessionId is it, a
\* device's sessions contain it) and its ownerId is the one asked for.
C10_Wanted(c, doc, q) ==
    /\ q.sessionId # undefined =>
          IF c = "viewers" THEN doc.sessionId.hex = q.sessionId
          ELSE \E i \in DOMAIN doc.sessions : doc.sessions[i].hex = q.sessionId
    /\ q.ownerId # undefined => doc.ownerId = q.ownerId

\* C10 (as claimed): a List that no pagination cuts short (skip 0, limit 100)
\* returns exactly the stored resources its sessionId and ownerId filters ask
\* for: none is omitted and no other is returned.
C10_ListFilters ==
    \A r \in Reqs :
        (pc[r] = "done" /\ req[r].method = "GET" /\ req[r].path \in {"/viewers", "/devices"}
           /\ req[r].query.skip = 0 /\ req[r].query.limit = LimitMax)
        => LET c == CollOf(req[r].path)
               results == resp[r].body.results
           IN  {results[i].id : i \in DOMAIN results}
                 = {h \in DOMAIN store[c] : C10_Wanted(c, store[c][h], req[r].query)}

\* The name of the event a successful request of method m is to emit.
C11_EventName(m) ==
    IF m = "POST" THEN "viewer created"
    ELSE IF m = "PUT" THEN "viewer updated" ELSE "viewer deleted"

\* C11: in the viewer service with events, the step in which a Create, Update
\* or Delete request ends successfully emits exactly one event, named
\* 'viewer created', 'viewer updated' and 'viewer deleted' respectively, and
\* no other step emits anything: a request that ends otherwise (rejected, or
\* by an exception) emits none, at any of its steps.
C11_OneEventPerSuccess ==
    [][/\ \A r \in Reqs :
            (Completes(r) /\ resp'[r].status = "ok")
            => /\ Len(events') = Len(events) + 1
               /\ events'[Len(events')].event = C11_EventName(req'[r].method)
               /\ \A i \in DOMAIN events : events'[i] = events[i]
       /\ events' # events
            => \E r \in Reqs : Completes(r) /\ resp'[r].status = "ok"]_vars

\* C11 witness: a Delete has succeeded and another request has been rejected,
\* and exactly one event, 'viewer deleted', has been emitted.
C11_Witness ==
    \E r, q \in Reqs :
        /\ pc[r] = "done" /\ req[r].method = "DELETE" /\ resp[r].status = "ok"
        /\ pc[q] = "done" /\ resp[q].status = "unauthorized"
        /\ Len(events) = 1 /\ events[1].event = "viewer deleted"

\* The id a resource snapshot is for, under whichever key it carries it.
C12_IdOf(doc) == IF "id" \in DOMAIN doc THEN doc.id ELSE toString(doc._id)

\* C12 (as claimed): every emitted event carries a viewerId equal to the id of
\* the viewer the request concerns, and a snapshot of the viewer of that id:
\* for 'viewer created' the resource created, for 'viewer updated' the stored
\* resource after the update, for 'viewer deleted' the stored resource before
\* the delete.
C12_EventCarriesViewer ==
    [][\A r \in Reqs :
         (Completes(r) /\ resp'[r].status = "ok" /\ events' # events)
         => LET e == events'[Len(events')]
                m == req'[r].method
                h == IF m = "POST" THEN resp'[r].body.id ELSE req'[r].id
            IN  /\ e.viewerId = h
                /\ C12_IdOf(e.viewer) = h
                /\ (m = "POST") => e.viewer = withId(store'.viewers[h])
                /\ (m = "PUT" /\ h \in DOMAIN store'.viewers)
                      => withId(e.viewer) = withId(store'.viewers[h])
                /\ (m = "DELETE" /\ h \in DOMAIN store.viewers)
                      => e.viewer = withId(store.viewers[h])]_vars

\* The resource-specific fields of the resources of collection c.
C13_Fields(c) == IF c = "viewers" THEN {"sessionId"}
                 ELSE {"name", "description", "sessions"}

\* C13 (as claimed): for both resource types, when an Update ends
\* successfully the stored resource has the payload's value in every
\* resource-specific field (the value of an omitted field being undefined),
\* and the resource returned is the stored resource.
C13_UpdateReplacesFields ==
    [][\A r \in Reqs :
         (Completes(r) /\ req[r].method = "PUT" /\ resp'[r].status = "ok")
         => LET c == CollOf(req[r].path)
                h == req[r].id
            IN  /\ h \in DOMAIN store'[c]
                /\ \A f \in C13_Fields(c) : store'[c][h][f] = req[r].payload[f]
                /\ withId(resp'[r].body) = withId(store'[c][h])]_vars

\* A list that names no element twice.
C14_NoDuplicates(list) ==
    \A i, j \in DOMAIN list : list[i] = list[j] => i = j

C15_UnauthorizedBeforeBadRequest ==
    [][\A r \in Reqs :
         (ChecksUpdate(r) /\ req[r].cred.isMachine
            /\ "impersonate_user" \notin req[r].cred.scopes
            /\ req[r].payload.ownerId = req[r].cred.user
            /\ req[r].payload.ownerId # store[CollOf(req[r].path)][req[r].id].ownerId)
         => (pc'[r] = "done" /\ resp'[r].status = "unauthorized")]_vars

\* The outcomes that reject a request.
C16_Rejections == {"unauthorized", "badRequest", "notFound"}

\* C16: no step of a Create, Update or Delete request that ends in
\* Unauthorized, BadRequest or NotFound changes the store or emits an event:
\* the step that rejects it is its first step or the first read of the store
\* after it, and neither that step nor the first step of any request (the
\* only step that can precede it) writes or emits.
C16_RejectionHasNoSideEffect ==
    [][\A r \in Reqs :
         /\ (Completes(r) /\ req'[r].method \in {"POST", "PUT", "DELETE"}
               /\ resp'[r].status \in C16_Rejections)
            => /\ store' = store /\ events' = events
               /\ pc[r] \in {"idle", "findOne"}
         /\ (Acts(r) /\ pc[r] = "idle")
            => (store' = store /\ events' = events)
         /\ (Acts(r) /\ pc'[r] = "findOne") => pc[r] = "idle"]_vars

\* C16 witness: an Update has been rejected Unauthorized and a Delete
\* NotFound, and the store is as it was at the start, with no event emitted.
C16_Witness ==
    \E r, q \in Reqs :
        /\ pc[r] = "done" /\ req[r].method = "PUT" /\ resp[r].status = "unauthorized"
        /\ pc[q] = "done" /\ req[q].method = "DELETE" /\ resp[q].status = "notFound"
        /\ store = [viewers |-> (SeedViewerHex :> SeedViewer),
                    devices |-> (SeedDeviceHex :> SeedDevice)]
        /\ events = <<>>

\* C17: in the viewer service, an event is emitted only in the step in which
\* the request's awaited write (insertOne, updateOne, deleteOne) has returned,
\* so the store already shows the mutation (the created viewer is stored, the
\* deleted one is not, the updated one, if stored, has the written values),
\* and the outcome of the request is success with the viewer the event
\* carries, whether or not the event reaches the event service.
C17_MutationBeforeEmit ==
    [][\A r \in Reqs :
         (Acts(r) /\ events' # events)
         => LET e == events'[Len(events')]
                h == C12_IdOf(e.viewer)
            IN  /\ pc[r] \in {"insertOne", "updateOne", "deleteOne"}
                /\ pc[r] = "insertOne"
                     => (h \in DOMAIN store'.viewers /\ h \notin DOMAIN store.viewers)
                /\ pc[r] = "deleteOne" => h \notin DOMAIN store'.viewers
                /\ (pc[r] = "updateOne" /\ h \in DOMAIN store'.viewers)
                     => \A f \in {"updatedDate", "updatorId", "ownerId", "sessionId"} :
                           store'.viewers[h][f] = e.viewer[f]
                /\ Len(delivered') = Len(events')
                /\ pc'[r] = "done"
                /\ resp'[r] = okOutcome(e.viewer)]_vars

\* C17 witness: a Delete has removed the viewer and answered successfully
\* although its event did not reach the event service.
C17_Witness ==
    \E r \in Reqs :
        /\ pc[r] = "done" /\ req[r].method = "DELETE" /\ resp[r].status = "ok"
        /\ req[r].id \notin DOMAIN store.viewers
        /\ Len(events) = 1 /\ events[1].event = "viewer deleted"
        /\ delivered = <<FALSE>>

\* C18 (as claimed), the part of it that every single step must satisfy: when
\* a token request is answered, either it succeeded and the process-wide
\* token is replaced by the access token received, or it failed and the token
\* is left as it was; in both cases the service keeps running, so that the
\* timer already set can start the next request.
C18_RefreshKeepsRunning ==
    [][fetching' < fetching
         => /\ alive'
            /\ token' = token \/ token' \in AccessTokens]_vars

\* C19 (as claimed): the token carried in every emitted event is the bearer
\* token of the caller whose request triggered the event.
C19_EventTokenIsCallers ==
    [][\A r \in Reqs :
         (Acts(r) /\ events' # events)
         => events'[Len(events')].token = req[r].cred.token]_vars

\* C19 (amended): the token carried in every emitted event is the event API
\* plugin's own token (expose.token) as it was when the handler of the
\* triggering request started: the handler reads it in its first step, keeps
\* it over its awaits, and puts it in the event; it is the access token last
\* fetched by then, or '' when none had been fetched.
C19_EventTokenIsPluginTokenAtStart ==
    [][\A r \in Reqs :
         /\ (Acts(r) /\ pc[r] = "idle" /\ pc'[r] # "done")
            => (loc'[r].token = token /\ token \in AccessTokens \cup {""})
         /\ (Acts(r) /\ pc[r] # "idle" /\ pc'[r] # "done")
            => loc'[r].token = loc[r].token
         /\ (Acts(r) /\ events' # events)
            => events'[Len(events')].token = loc[r].token]_vars

\* C19 witness: two events have been emitted, one carrying the access token
\* fetched and one, of a request that started before the fetch was answered,
\* carrying ''; neither is a caller's bearer token.
C19_Witness ==
    /\ Len(events) = 2
    /\ \E i, j \in DOMAIN events :
          events[i].token \in AccessTokens /\ events[j].token = ""
    /\ token \in AccessTokens

C21_UpdateDescribesStoredViewer ==
    [][/\ \A r \in Reqs :
            (Acts(r) /\ pc[r] = "updateOne"
               /\ (resp'[r].status = "ok" \/ events' # events))
            => /\ req[r].id \in DOMAIN store.viewers
               /\ req[r].id \in DOMAIN store'.viewers
       /\ \A i, j \in DOMAIN events' :
            (i < j /\ events'[i].event = "viewer deleted"
               /\ events'[j].event = "viewer updated")
            => C12_IdOf(events'[i].viewer) # C12_IdOf(events'[j].viewer)]_vars

\* C22 (as claimed): for every viewer id at most one Delete request has
\* returned the deleted resource and at most one 'viewer deleted' event has
\* been emitted for it, however the Delete requests for that id interleave;
\* every other Delete of that id that has ended has answered NotFound.
C22_AtMostOneDelete ==
    \A h \in KnownHex :
        LET deletes == {r \in Reqs : /\ pc[r] = "done" /\ req[r].method = "DELETE"
                                     /\ req[r].path = "/viewers/{id}"
                                     /\ req[r].id = h}
            succeeded == {r \in deletes : resp[r].status = "ok"}
            notified == {i \in DOMAIN events : /\ events[i].event = "viewer deleted"
                                               /\ events[i].viewerId = h}
        IN  /\ Cardinality(succeeded) <= 1
            /\ Cardinality(notified) <= 1
            /\ \A r \in deletes \ succeeded : resp[r].status = "notFound"

====
